---- MODULE Spec2Model ----
(***************************************************************************)
(* Query-resolution pipeline of refract-backend:                           *)
(*   api/index.py         _get_fallback_sql, process_text_query            *)
(*   gemini_sql.py        GeminiTextToSQL (translator / explainer)         *)
(*   supabase_manager.py  SupabaseManager (query executor)                 *)
(*                                                                         *)
(* Python str values are TLA+ strings; the substring, prefix, lower() and  *)
(* strip() operations are computed character by character.  An Optional    *)
(* value is <<>> for None and <<v>> for a value v.  The backquote cannot   *)
(* be written inside a TLA+ string: the model writes it "~", a character   *)
(* that occurs in no other text of the model.                              *)
(***************************************************************************)
EXTENDS Integers, Sequences, FiniteSets, TLC

(***************************************************************************)
(* Python str operations                                                   *)
(***************************************************************************)
None == <<>>

Some(v) == <<v>>

\* Python truthiness of an Optional[str]: None and "" are false.
Truthy(opt) == opt # None /\ opt[1] # ""

Whitespace == {" ", "\t", "\n", "\r", "\f"}

RECURSIVE FirstNonSpace(_, _)
FirstNonSpace(s, i) ==
  IF i > Len(s) \/ SubSeq(s, i, i) \notin Whitespace THEN i
  ELSE FirstNonSpace(s, i + 1)

RECURSIVE LastNonSpace(_, _)
LastNonSpace(s, i) ==
  IF i < 1 \/ SubSeq(s, i, i) \notin Whitespace THEN i
  ELSE LastNonSpace(s, i - 1)

\* str.strip()
Strip(s) == SubSeq(s, FirstNonSpace(s, 1), LastNonSpace(s, Len(s)))

RECURSIVE RStripChar(_, _)
\* str.rstrip(c) for a single character c
RStripChar(s, c) ==
  IF Len(s) > 0 /\ SubSeq(s, Len(s), Len(s)) = c
  THEN RStripChar(SubSeq(s, 1, Len(s) - 1), c)
  ELSE s

\* sub in s
Contains(s, sub) ==
  \E i \in 1..(Len(s) - Len(sub) + 1) : SubSeq(s, i, i + Len(sub) - 1) = sub

\* s.startswith(prefix)
StartsWith(s, prefix) ==
  Len(prefix) <= Len(s) /\ SubSeq(s, 1, Len(prefix)) = prefix

\* s.endswith(suffix)
EndsWith(s, suffix) ==
  Len(suffix) <= Len(s) /\ SubSeq(s, Len(s) - Len(suffix) + 1, Len(s)) = suffix

\* s[n:] for n >= 0
DropPrefix(s, n) == SubSeq(s, n + 1, Len(s))

\* s[:n] with the limit left out
SliceUnlimited(s, n) == s

\* s[:n] for any integer n (a negative n counts from the end)
Slice(s, n) ==
  IF n >= 0 THEN SubSeq(s, 1, IF n < Len(s) THEN n ELSE Len(s))
  ELSE SubSeq(s, 1, IF Len(s) + n > 0 THEN Len(s) + n ELSE 0)

(***************************************************************************)
(* Exceptions and call outcomes                                            *)
(***************************************************************************)
\* An exception is its class and its message; str(e) is the message.
Exc(type, msg) == [type |-> type, msg |-> msg]

str(e) == e.msg

\* The outcome of a call: a returned value, or a raised exception.
Ok(v) == [exc |-> None, val |-> v]

Raise(e) == [exc |-> Some(e), val |-> ""]

Raised(r) == r.exc # None

\* result.data of an RPC is a JSON value: null, an array of items, an
\* object (a row-map) or a scalar.  A scalar v that ends up as an entry of
\* results is the record [json_scalar |-> v], which is not a Dict.
JsonNull == [json |-> "null"]

JsonArray(items) == [json |-> "array", items |-> items]

JsonObject(row) == [json |-> "object", value |-> row]

JsonScalar(v) == [json |-> "scalar", value |-> [json_scalar |-> v]]

(***************************************************************************)
(* gemini_sql.py: GeminiTextToSQL                                          *)
(***************************************************************************)
EmptyDict == <<>>

RECURSIVE Join(_, _)
\* sep.join(parts)
Join(parts, sep) ==
  IF Len(parts) = 0 THEN ""
  ELSE IF Len(parts) = 1 THEN parts[1]
  ELSE parts[1] \o sep \o Join(Tail(parts), sep)

RECURSIVE ColDefs(_)
\* [f"{col['name']} {col['type']}" for col in columns]: the list, or the
\* KeyError of the first subscript that fails
ColDefs(columns) ==
  IF Len(columns) = 0 THEN Ok(<<>>)
  ELSE LET col == columns[1]
       IN  IF "name" \notin DOMAIN col THEN Raise(Exc("KeyError", "'name'"))
           ELSE IF "type" \notin DOMAIN col THEN Raise(Exc("KeyError", "'type'"))
           ELSE LET rest == ColDefs(Tail(columns))
                IN  IF Raised(rest) THEN rest
                    ELSE Ok(<<col.name \o " " \o col.type>> \o rest.val)

RECURSIVE TableLines(_)
TableLines(tables) ==
  IF Len(tables) = 0 THEN Ok(<<>>)
  ELSE LET table == tables[1]
           defs  == ColDefs(table.columns)
       IN  IF Len(table.columns) = 0 THEN TableLines(Tail(tables))
           ELSE IF Raised(defs) THEN defs
           ELSE LET rest == TableLines(Tail(tables))
                IN  IF Raised(rest) THEN rest
                    ELSE Ok(<<"CREATE TABLE " \o table.name \o " ("
                                \o Join(defs.val, ", ") \o ");">> \o rest.val)

\* The instance api/index.py constructs never receives business context or
\* training examples, so only the schema part of the prompt is non-empty.
_build_context_prompt(schema) ==
  IF schema = EmptyDict THEN Ok("")
  ELSE LET lines == TableLines(schema.tables)
       IN  IF Raised(lines) THEN lines
           ELSE Ok(Join(<<"DATABASE SCHEMA:">> \o lines.val \o <<"">>, "\n"))

Fence == "~~~"

FenceSql == "~~~sql"

\* gemini_sql.py lines 98-108
CleanResponse(text) ==
  LET s0 == Strip(text)
      s1 == IF StartsWith(s0, FenceSql) THEN DropPrefix(s0, 6) ELSE s0
      s2 == IF StartsWith(s1, Fence) THEN DropPrefix(s1, 3) ELSE s1
      s3 == IF EndsWith(s2, Fence) THEN SubSeq(s2, 1, Len(s2) - 3) ELSE s2
  IN  Strip(s3)

\* model_out is the outcome of self.model.generate_content(prompt) and
\* response.text
generate_sql(schema, question, model_out) ==
  LET context == _build_context_prompt(schema)
  IN  IF Raised(context) THEN context
      ELSE IF Raised(model_out)
           THEN Ok("ERROR: Failed to generate SQL - " \o str(model_out.exc[1]))
      ELSE Ok(CleanResponse(model_out.val))

explain_sql(schema, sql, model_out) ==
  LET context == _build_context_prompt(schema)
  IN  IF Raised(context) THEN context
      ELSE IF Raised(model_out)
           THEN Ok("ERROR: Failed to explain SQL - " \o str(model_out.exc[1]))
      ELSE Ok(Strip(model_out.val))

\* the exception the model raised in the call, if the call was made
ModelFault(schema, model_out) ==
  IF Raised(_build_context_prompt(schema)) THEN None ELSE model_out.exc

(***************************************************************************)
(* Texts and constants of api/index.py and supabase_manager.py             *)
(***************************************************************************)
\* api/index.py line 63
DefaultMaxResults == 10

\* api/index.py lines 84-114
SqlCustomersLimit10 == "SELECT * FROM customers LIMIT 10"

SqlCustomersCount == "SELECT COUNT(*) as count FROM customers"

SqlCustomersAll == "SELECT * FROM customers"

SqlCustomersRevenue ==
  "SELECT * FROM customers WHERE revenue > 10000 ORDER BY revenue DESC LIMIT 10"

SqlOrdersLimit10 == "SELECT * FROM orders LIMIT 10"

SqlOrdersCount == "SELECT COUNT(*) as count FROM orders"

SqlOrdersAll == "SELECT * FROM orders"

SqlCustomersLimit5 == "SELECT * FROM customers LIMIT 5"

\* api/index.py line 197
PlaceholderSql ==
  "SELECT 'Query pattern not recognized' as message, 'Try: show customers, count customers, show orders' as suggestion"

\* str(e) of the UnboundLocalError raised where the name re is read in a
\* call whose 'import re' statement did not run; the text depends on the
\* interpreter version
UnboundLocalMessages ==
  {"local variable 're' referenced before assignment",
   "cannot access local variable 're' where it is not associated with a value"}

(***************************************************************************)
(* Inputs and outcomes of the external services                            *)
(***************************************************************************)
\* the longest request duration told apart, in clock ticks
MaxElapsed == 1

Questions == {"show customers", "count orders", "hello"}

MaxResultsValues == {0, 1, DefaultMaxResults}

ProjectUrl == "https://project.supabase.co"

SampleSchema ==
  [tables |-> <<[name |-> "customers",
                 columns |-> <<[name |-> "id", type |-> "TEXT PRIMARY KEY"],
                               [name |-> "revenue", type |-> "REAL"]>>],
                [name |-> "orders",
                 columns |-> <<[name |-> "id", type |-> "TEXT PRIMARY KEY"]>>]>>]

\* a schema one of whose columns has no 'type'
MalformedSchema ==
  [tables |-> <<[name |-> "customers", columns |-> <<[name |-> "id"]>>]>>]

Schemas == {SampleSchema, MalformedSchema}

\* what self.model.generate_content(prompt) raises
ModelErrors ==
  {Exc("ResourceExhausted", "429 Resource has been exhausted (e.g. check quota)."),
   Exc("ServiceUnavailable", "503 The service is currently unavailable.")}

\* response.text of the translation call
GenerateTexts ==
  {"SELECT * FROM customers WHERE revenue > 5000",
   "~~~sql\nSELECT COUNT(*) FROM orders;\n~~~",
   "SELECT * FROM customers WHERE state = 'TX'",
   "SELECT name FROM products",
   " ~~~\nERROR: Cannot generate SQL for this question\n~~~\n",
   ""}

GenerateOutcomes == {Ok(t) : t \in GenerateTexts} \cup {Raise(e) : e \in ModelErrors}

ExplainOutcomes == {Ok(" Returns the matching rows.\n")} \cup {Raise(e) : e \in ModelErrors}

LiveCustomers ==
  <<[id |-> "c1", name |-> "Acme", state |-> "CA", revenue |-> 4000],
    [id |-> "c2", name |-> "Bolt", state |-> "TX", revenue |-> 20000],
    [id |-> "c3", name |-> "Core", state |-> "TX", revenue |-> 12000]>>

LiveOrders ==
  <<[id |-> "o1", customer_id |-> "c1", order_date |-> 20240115],
    [id |-> "o2", customer_id |-> "c2", order_date |-> 20240220]>>

LiveDatabases ==
  {[customers |-> <<>>, orders |-> <<>>],
   [customers |-> LiveCustomers, orders |-> LiveOrders]}

NoDatabase == [customers |-> <<>>, orders |-> <<>>]

\* what a request to the database raises
DbErrors ==
  {Exc("APIError", "relation does not exist"),
   Exc("APIError", "Quota exceeded for this project")}

RpcData ==
  {JsonNull, JsonArray(<<[name |-> "Widget"], [name |-> "Gadget"]>>),
   JsonObject([name |-> "Widget"]), JsonScalar(TRUE)}

NoFault ==
  [db_fault |-> None, rpc |-> Ok(JsonNull),
   unbound_msg |-> "local variable 're' referenced before assignment",
   first_day |-> 20240101]

\* One call of execute_sql_query issues at most one request, a structured
\* one or the RPC, so the outcomes differ from NoFault in one field.  In
\* mock mode no request is issued.
ExecuteOutcomes ==
  {NoFault}
  \cup {[NoFault EXCEPT !.db_fault = Some(e)] : e \in DbErrors}
  \cup {[NoFault EXCEPT !.rpc = Ok(j)] : j \in RpcData}
  \cup {[NoFault EXCEPT !.rpc = Raise(e)] : e \in DbErrors}
  \cup {[NoFault EXCEPT !.unbound_msg = m] : m \in UnboundLocalMessages}

(***************************************************************************)
(* str.lower()                                                             *)
(***************************************************************************)
UpperLower ==
  [A |-> "a", B |-> "b", C |-> "c", D |-> "d", E |-> "e", F |-> "f", G |-> "g",
   H |-> "h", I |-> "i", J |-> "j", K |-> "k", L |-> "l", M |-> "m", N |-> "n",
   O |-> "o", P |-> "p", Q |-> "q", R |-> "r", S |-> "s", T |-> "t", U |-> "u",
   V |-> "v", W |-> "w", X |-> "x", Y |-> "y", Z |-> "z"]

LowerChar(c) == IF c \in DOMAIN UpperLower THEN UpperLower[c] ELSE c

RECURSIVE LowerRange(_, _, _)
\* the lower-cased characters lo..hi of s, computed by halves to keep the
\* evaluation shallow
LowerRange(s, lo, hi) ==
  IF lo > hi THEN ""
  ELSE IF lo = hi THEN LowerChar(SubSeq(s, lo, lo))
  ELSE LET mid == (lo + hi) \div 2
       IN  LowerRange(s, lo, mid) \o LowerRange(s, mid + 1, hi)

\* str.lower()
Lower(s) ==
  LowerRange(s, 1, Len(s))

(***************************************************************************)
(* api/index.py: the fallback rule matcher                                 *)
(***************************************************************************)
\* the bare customer rule tried before the revenue rule
_get_fallback_sql_bare_first(query) ==
  LET query_lower == Strip(Lower(query))
      has(k) == Contains(query_lower, k)
  IN  IF has("show") /\ has("customer") THEN Some(SqlCustomersLimit10)
      ELSE IF has("count") /\ has("customer") THEN Some(SqlCustomersCount)
      ELSE IF has("list") /\ has("customer") THEN Some(SqlCustomersLimit10)
      ELSE IF has("all customer") THEN Some(SqlCustomersAll)
      ELSE IF has("customer") THEN Some(SqlCustomersLimit10)
      ELSE IF has("customer") /\ (has("high") \/ has("revenue"))
           THEN Some(SqlCustomersRevenue)
      ELSE IF has("show") /\ has("order") THEN Some(SqlOrdersLimit10)
      ELSE IF has("count") /\ has("order") THEN Some(SqlOrdersCount)
      ELSE IF has("list") /\ has("order") THEN Some(SqlOrdersLimit10)
      ELSE IF has("all order") THEN Some(SqlOrdersAll)
      ELSE IF has("order") THEN Some(SqlOrdersLimit10)
      ELSE IF has("show") THEN Some(SqlCustomersLimit5)
      ELSE IF has("count") THEN Some(SqlCustomersCount)
      ELSE IF has("list") THEN Some(SqlCustomersLimit5)
      ELSE None

\* the all-customer rule tried first
_get_fallback_sql_all_first(query) ==
  LET query_lower == Strip(Lower(query))
      has(k) == Contains(query_lower, k)
  IN  IF has("all customer") THEN Some(SqlCustomersAll)
      ELSE IF has("show") /\ has("customer") THEN Some(SqlCustomersLimit10)
      ELSE IF has("count") /\ has("customer") THEN Some(SqlCustomersCount)
      ELSE IF has("list") /\ has("customer") THEN Some(SqlCustomersLimit10)
      ELSE IF has("customer") /\ (has("high") \/ has("revenue"))
           THEN Some(SqlCustomersRevenue)
      ELSE IF has("customer") THEN Some(SqlCustomersLimit10)
      ELSE IF has("show") /\ has("order") THEN Some(SqlOrdersLimit10)
      ELSE IF has("count") /\ has("order") THEN Some(SqlOrdersCount)
      ELSE IF has("list") /\ has("order") THEN Some(SqlOrdersLimit10)
      ELSE IF has("all order") THEN Some(SqlOrdersAll)
      ELSE IF has("order") THEN Some(SqlOrdersLimit10)
      ELSE IF has("show") THEN Some(SqlCustomersLimit5)
      ELSE IF has("count") THEN Some(SqlCustomersCount)
      ELSE IF has("list") THEN Some(SqlCustomersLimit5)
      ELSE None

\* the list rule tried before the count rule
_get_fallback_sql_list_first(query) ==
  LET query_lower == Strip(Lower(query))
      has(k) == Contains(query_lower, k)
  IN  IF has("show") /\ has("customer") THEN Some(SqlCustomersLimit10)
      ELSE IF has("list") /\ has("customer") THEN Some(SqlCustomersLimit10)
      ELSE IF has("count") /\ has("customer") THEN Some(SqlCustomersCount)
      ELSE IF has("all customer") THEN Some(SqlCustomersAll)
      ELSE IF has("customer") /\ (has("high") \/ has("revenue"))
           THEN Some(SqlCustomersRevenue)
      ELSE IF has("customer") THEN Some(SqlCustomersLimit10)
      ELSE IF has("show") /\ has("order") THEN Some(SqlOrdersLimit10)
      ELSE IF has("count") /\ has("order") THEN Some(SqlOrdersCount)
      ELSE IF has("list") /\ has("order") THEN Some(SqlOrdersLimit10)
      ELSE IF has("all order") THEN Some(SqlOrdersAll)
      ELSE IF has("order") THEN Some(SqlOrdersLimit10)
      ELSE IF has("show") THEN Some(SqlCustomersLimit5)
      ELSE IF has("count") THEN Some(SqlCustomersCount)
      ELSE IF has("list") THEN Some(SqlCustomersLimit5)
      ELSE None

_get_fallback_sql(query) ==
  LET query_lower == Strip(Lower(query))
      has(k) == Contains(query_lower, k)
  IN  IF has("show") /\ has("customer") THEN Some(SqlCustomersLimit10)
      ELSE IF has("count") /\ has("customer") THEN Some(SqlCustomersCount)
      ELSE IF has("list") /\ has("customer") THEN Some(SqlCustomersLimit10)
      ELSE IF has("all customer") THEN Some(SqlCustomersAll)
      ELSE IF has("customer") /\ (has("high") \/ has("revenue"))
           THEN Some(SqlCustomersRevenue)
      ELSE IF has("customer") THEN Some(SqlCustomersLimit10)
      ELSE IF has("show") /\ has("order") THEN Some(SqlOrdersLimit10)
      ELSE IF has("count") /\ has("order") THEN Some(SqlOrdersCount)
      ELSE IF has("list") /\ has("order") THEN Some(SqlOrdersLimit10)
      ELSE IF has("all order") THEN Some(SqlOrdersAll)
      ELSE IF has("order") THEN Some(SqlOrdersLimit10)
      ELSE IF has("show") THEN Some(SqlCustomersLimit5)
      ELSE IF has("count") THEN Some(SqlCustomersCount)
      ELSE IF has("list") THEN Some(SqlCustomersLimit5)
      ELSE None

(***************************************************************************)
(* supabase_manager.py: SupabaseManager                                    *)
(*                                                                         *)
(* A row-map is a record.  A JSON number with a fraction is written as its *)
(* text ("299.99"), a whole one as an integer; the order_date of a live    *)
(* row is the integer yyyymmdd of its ISO date.  The hosted database is    *)
(* the record db of its two tables; a structured request answers from it,  *)
(* or raises ext.db_fault when that is set.                                *)
(***************************************************************************)
_is_customers_query(sql) ==
  LET sql_lower == Lower(sql)
  IN  Contains(sql_lower, "customers")
      /\ (Contains(sql_lower, "select") \/ Contains(sql_lower, "count"))

_is_orders_query(sql) ==
  LET sql_lower == Lower(sql)
  IN  Contains(sql_lower, "orders")
      /\ (Contains(sql_lower, "select") \/ Contains(sql_lower, "count"))

Digits == <<"0", "1", "2", "3", "4", "5", "6", "7", "8", "9">>

IsDigit(c) == \E d \in 1..10 : Digits[d] = c

DigitVal(c) == (CHOOSE d \in 1..10 : Digits[d] = c) - 1

RECURSIVE DigitsEnd(_, _)
\* the position after the run of digits that starts at i
DigitsEnd(s, i) ==
  IF i <= Len(s) /\ IsDigit(SubSeq(s, i, i)) THEN DigitsEnd(s, i + 1) ELSE i

RECURSIVE ParseInt(_)
\* int(digits)
ParseInt(digits) ==
  IF Len(digits) = 0 THEN 0
  ELSE 10 * ParseInt(SubSeq(digits, 1, Len(digits) - 1))
       + DigitVal(SubSeq(digits, Len(digits), Len(digits)))

\* where r'revenue\s*>\s*(\d+)' matches when it is tried at position i:
\* <<start of group 1, position after it>>, or <<>> when it does not match
RevenueMatchAt(s, i) ==
  IF i + 6 > Len(s) \/ SubSeq(s, i, i + 6) # "revenue" THEN <<>>
  ELSE LET j == FirstNonSpace(s, i + 7)
       IN  IF j > Len(s) \/ SubSeq(s, j, j) # ">" THEN <<>>
           ELSE LET k == FirstNonSpace(s, j + 1)
                    e == DigitsEnd(s, k)
                IN  IF e = k THEN <<>> ELSE <<k, e>>

\* re.search(r'revenue\s*>\s*(\d+)', s): int(match.group(1)) of the leftmost
\* match, or None
RevenueThreshold(s) ==
  LET hits == {i \in 1..Len(s) : RevenueMatchAt(s, i) # <<>>}
  IN  IF hits = {} THEN None
      ELSE LET i == CHOOSE h \in hits : \A g \in hits : h <= g
               m == RevenueMatchAt(s, i)
           IN  Some(ParseInt(SubSeq(s, m[1], m[2] - 1)))

RECURSIVE SelectGt(_, _)
\* the rows with revenue > threshold, in table order
SelectGt(rows, threshold) ==
  IF Len(rows) = 0 THEN <<>>
  ELSE (IF rows[1].revenue > threshold THEN <<rows[1]>> ELSE <<>>)
       \o SelectGt(Tail(rows), threshold)

RECURSIVE SelectGe(_, _)
\* the rows with order_date >= first_day, in table order
SelectGe(rows, first_day) ==
  IF Len(rows) = 0 THEN <<>>
  ELSE (IF rows[1].order_date >= first_day THEN <<rows[1]>> ELSE <<>>)
       \o SelectGe(Tail(rows), first_day)

RECURSIVE InsertByRevenue(_, _, _)
InsertByRevenue(row, sorted, desc) ==
  IF Len(sorted) = 0 THEN <<row>>
  ELSE IF (IF desc THEN row.revenue > sorted[1].revenue
                   ELSE row.revenue < sorted[1].revenue)
       THEN <<row>> \o sorted
       ELSE <<sorted[1]>> \o InsertByRevenue(row, Tail(sorted), desc)

RECURSIVE OrderByRevenue(_, _)
\* the rows ordered by revenue; rows of equal revenue keep their order
OrderByRevenue(rows, desc) ==
  IF Len(rows) = 0 THEN <<>>
  ELSE InsertByRevenue(rows[Len(rows)],
                       OrderByRevenue(SubSeq(rows, 1, Len(rows) - 1), desc), desc)

_execute_customers_query(db, sql, max_results, ext) ==
  LET sql_lower == Lower(sql)
      has(k)    == Contains(sql_lower, k)
      threshold == RevenueThreshold(sql_lower)
      unbound   == has("where") /\ ~has("revenue >") /\ has("state")
      filtered  == IF has("where") /\ has("revenue >") /\ threshold # None
                   THEN SelectGt(db.customers, threshold[1])
                   ELSE db.customers
      ordered   == IF has("order by") /\ has("revenue")
                   THEN OrderByRevenue(filtered, has("desc"))
                   ELSE filtered
      data      == Slice(ordered, max_results)
  IN  IF has("count")
      THEN IF ext.db_fault # None THEN Raise(ext.db_fault[1])
           ELSE Ok(<<[count |-> Len(db.customers)]>>)
      ELSE IF unbound THEN Raise(Exc("UnboundLocalError", ext.unbound_msg))
      ELSE IF ext.db_fault # None THEN Raise(ext.db_fault[1])
      ELSE IF Len(data) > 0 THEN Ok(data)
      ELSE Ok(<<[message |-> "No customers found",
                 note |-> "The customers table exists but is empty"]>>)

\* the orders query with the count taken from the rows of the limited fetch
_execute_orders_query_counts_fetch(db, sql, max_results, ext) ==
  LET sql_lower == Lower(sql)
      has(k)    == Contains(sql_lower, k)
      data      == Slice(db.orders, max_results)
  IN  IF ext.db_fault # None THEN Raise(ext.db_fault[1])
      ELSE IF has("count") THEN Ok(<<[count |-> Len(data)]>>)
      ELSE IF Len(data) > 0 THEN Ok(data)
      ELSE Ok(<<[message |-> "No orders found",
                 note |-> "The orders table exists but is empty"]>>)

_execute_orders_query(db, sql, max_results, ext) ==
  LET sql_lower == Lower(sql)
      has(k)    == Contains(sql_lower, k)
      filtered  == IF has("this month") \/ (has("month") /\ has("current"))
                   THEN SelectGe(db.orders, ext.first_day)
                   ELSE db.orders
      data      == Slice(filtered, max_results)
  IN  IF ext.db_fault # None THEN Raise(ext.db_fault[1])
      ELSE IF has("count") THEN Ok(<<[count |-> Len(db.orders)]>>)
      ELSE IF Len(data) > 0 THEN Ok(data)
      ELSE Ok(<<[message |-> "No orders found",
                 note |-> "The orders table exists but is empty"]>>)

_execute_simple_query(sql, max_results) ==
  <<[message |-> "Query executed successfully",
     sql |-> sql,
     note |-> "Complex queries require manual parsing - showing generic result",
     suggestion |-> "Try simpler queries like 'show customers' or 'count orders'"]>>

MockCustomersRevenue ==
  <<[id |-> "cust_001", name |-> "John Smith", email |-> "john@techcorp.com",
     company |-> "TechCorp Inc", city |-> "San Francisco", state |-> "CA",
     revenue |-> 15000, created_at |-> "2023-01-15"],
    [id |-> "cust_002", name |-> "Sarah Johnson", email |-> "sarah@innovate.io",
     company |-> "Innovate Solutions", city |-> "Austin", state |-> "TX",
     revenue |-> 8500, created_at |-> "2023-02-20"]>>

MockCustomersTop ==
  <<[name |-> "Enterprise Corp", company |-> "Enterprise Corp", revenue |-> 25000],
    [name |-> "Big Business LLC", company |-> "Big Business LLC", revenue |-> 18000]>>

MockOrders ==
  <<[id |-> "ord_001", customer_id |-> "cust_001", product_name |-> "Premium Plan",
     amount |-> "299.99", status |-> "completed", order_date |-> "2024-01-15"],
    [id |-> "ord_002", customer_id |-> "cust_002", product_name |-> "Basic Plan",
     amount |-> "99.99", status |-> "pending", order_date |-> "2024-01-20"]>>

MockCustomersCount == 150

\* url is os.getenv("SUPABASE_URL"), an Optional[str]
supabase_note(url, sql) ==
  [note |-> "Using mock data. Create 'customers' and 'orders' tables in your Supabase dashboard to use real data",
   supabase_url |-> IF url = None THEN "not-configured" ELSE url[1],
   sql_generated |-> sql]

_get_mock_results(url, sql, max_results) ==
  LET sql_lower == Lower(sql)
      has(k)    == Contains(sql_lower, k)
      note      == supabase_note(url, sql)
  IN  IF has("customers") /\ has("revenue") /\ has("5000")
      THEN Slice(MockCustomersRevenue, max_results) \o <<note>>
      ELSE IF has("customers") /\ has("count")
      THEN <<[count |-> MockCustomersCount], note>>
      ELSE IF has("customers") /\ (has("top") \/ has("order by"))
      THEN Slice(MockCustomersTop, max_results) \o <<note>>
      ELSE IF has("orders")
      THEN Slice(MockOrders, max_results) \o <<note>>
      ELSE Slice(<<[message |-> "Mock data from SupabaseManager",
                    query |-> IF Len(sql) > 100
                              THEN SubSeq(sql, 1, 100) \o "..." ELSE sql,
                    note |-> "Configure SUPABASE_URL and SUPABASE_SERVICE_ROLE_KEY in .env.local for real data"],
                   note>>, max_results)

\* if result.data:
JsonTruthy(data) ==
  CASE data.json = "null"   -> FALSE
    [] data.json = "array"  -> data.items # <<>>
    [] data.json = "object" -> TRUE
    [] data.json = "scalar" -> data.value.json_scalar # FALSE

\* isinstance(result.data, list)
IsList(data) == data.json = "array"

IsDict(item) == "json_scalar" \notin DOMAIN item

\* lines 118-129: the generic path. ext.rpc is the outcome of
\* self.client.rpc('exec_sql', ...).execute(), its value being result.data
ExecuteGeneric(sql_clean, max_results, ext) ==
  IF ~Raised(ext.rpc) /\ JsonTruthy(ext.rpc.val)
  THEN LET data == ext.rpc.val
       IN  IF IsList(data) THEN Slice(data.items, max_results) ELSE <<data.value>>
  ELSE _execute_simple_query(sql_clean, max_results)

\* lines 131-145 without the test for the quota pattern
ExecuteFailedAlwaysRaw(e, sql_clean) ==
  <<[error |-> "Database query failed: " \o str(e),
     sql |-> sql_clean,
     note |-> "Check your Supabase tables and permissions"]>>

\* lines 131-145
ExecuteFailed(e, sql_clean) ==
  IF ~Contains(Lower(str(e)), "quota") /\ ~Contains(str(e), "429")
  THEN <<[error |-> "Database query failed: " \o str(e),
          sql |-> sql_clean,
          note |-> "Check your Supabase tables and permissions"]>>
  ELSE <<[error |-> "AI service temporarily unavailable",
          message |-> "Please try again in a moment",
          fallback_options |-> <<"Try: 'show customers'", "Try: 'count orders'">>]>>

\* lines 106-129: the body of the try statement
ExecuteLive(db, sql_clean, max_results, ext) ==
  IF _is_customers_query(sql_clean)
  THEN _execute_customers_query(db, sql_clean, max_results, ext)
  ELSE IF _is_orders_query(sql_clean)
  THEN _execute_orders_query(db, sql_clean, max_results, ext)
  ELSE Ok(ExecuteGeneric(sql_clean, max_results, ext))

\* client is is_connected(); the value is the outcome of the call
execute_sql_query(client, url, db, sql, max_results, ext) ==
  IF ~client THEN Ok(_get_mock_results(url, sql, max_results))
  ELSE LET sql_clean == RStripChar(Strip(sql), ";")
           live      == ExecuteLive(db, sql_clean, max_results, ext)
       IN  IF Raised(live)
           THEN Ok(ExecuteFailed(live.exc[1], sql_clean))
           ELSE live

\* the exception the database raised in the request the call made, if
\* any; out is the outcome of the call
ServiceFault(client, sql, out, ext) ==
  LET sql_clean == RStripChar(Strip(sql), ";")
  IN  IF ~client THEN None
      ELSE IF _is_customers_query(sql_clean) \/ _is_orders_query(sql_clean)
      THEN IF ext.db_fault # None
              /\ out.val = ExecuteFailed(ext.db_fault[1], sql_clean)
           THEN ext.db_fault ELSE None
      ELSE ext.rpc.exc

(***************************************************************************)
(* api/index.py: process_text_query                                        *)
(***************************************************************************)
\* line 155
IsQuotaError(e) == Contains(Lower(str(e)), "quota") \/ Contains(str(e), "429")

\* the check of line 190 without its test for the ERROR: sentinel
InvalidSqlNoSentinel(sql) == sql = "" \/ Contains(sql, "Failed to generate")

\* line 190
InvalidSql(sql) ==
  sql = "" \/ Contains(sql, "ERROR:") \/ Contains(sql, "Failed to generate")

SimpleQueryResponse(success, query, sql, rows, explanation, execution_time, row_count, error) ==
  [success |-> success, query |-> query, generated_sql |-> sql,
   results |-> rows, explanation |-> explanation,
   execution_time |-> execution_time, row_count |-> row_count, error |-> error]

\* results: List[Dict[str, Any]] is validated when the envelope is built
ValidResults(results) == \A i \in 1..Len(results) : IsDict(results[i])

ValidationError ==
  Exc("ValidationError", "1 validation error for SimpleQueryResponse")

\* lines 162-179
QuotaResponse(query) ==
  SimpleQueryResponse(FALSE, query, "",
    <<[error |-> "AI service temporarily unavailable",
       message |-> "Please try again in a moment, or use simpler queries",
       suggestions |-> <<"Try: 'show customers'", "Try: 'count customers'",
                         "Try: 'list all customers'", "Try: 'show orders'">>]>>,
    None, 0, 1,
    Some("AI quota exceeded - try simpler queries or wait a moment"))

\* the envelope of lines 204-211 with a row_count that leaves out the
\* trailing note row
SuccessResponseCountsNoNote(query, sql, rows, execution_time) ==
  SimpleQueryResponse(TRUE, query, sql, rows, None, execution_time,
                      IF Len(rows) > 0 THEN Len(rows) - 1 ELSE 0, None)

\* lines 204-211
SuccessResponse(query, sql, rows, execution_time) ==
  SimpleQueryResponse(TRUE, query, sql, rows, None, execution_time,
                      Len(rows), None)

\* lines 228-236
ErrorResponse(query, e, execution_time) ==
  SimpleQueryResponse(FALSE, query, "", <<>>, None, execution_time, 0,
                      Some(str(e)))

\* line 224: except Exception catches every exception that is not one of
\* the classes deriving from BaseException only
BaseExceptionOnly ==
  {"KeyboardInterrupt", "SystemExit", "GeneratorExit", "CancelledError"}

\* line 224 as 'except ValueError'
CaughtValueErrorOnly(e) == e.type = "ValueError"

Caught(e) == e.type \notin BaseExceptionOnly

(***************************************************************************)
(* State                                                                   *)
(***************************************************************************)
VARIABLES
  supabase_url,   \* os.getenv("SUPABASE_URL")
  client,         \* SupabaseManager.client is not None
  db,             \* the tables of the hosted database
  schema_info,    \* GeminiTextToSQL.schema_info
  pc,             \* position of the request in process_text_query
  request,        \* SimpleQueryRequest
  generated_sql,  \* local generated_sql
  fallback_sql,   \* local fallback_sql
  results,        \* local results
  response,       \* the SimpleQueryResponse built or returned
  propagated,     \* the exception that left process_text_query, if any
  calls,          \* the calls of the request, in order: the operation, its
                  \* argument, its outcome and the service's exception
  elapsed         \* datetime.utcnow() - start_time, in ticks

vars == <<supabase_url, client, db, schema_info, pc, request, generated_sql,
          fallback_sql, results, response, propagated, calls, elapsed>>

NoRequest == [query |-> "", max_results |-> DefaultMaxResults, explain |-> TRUE]

NoResponse == SimpleQueryResponse(FALSE, "", "", <<>>, None, 0, 0, None)

\* supabase_manager.py lines 21-32 and api/index.py lines 56-57
Init ==
  /\ supabase_url \in {None, Some(ProjectUrl)}
  /\ \E service_role_key \in {None, Some("service-role-key")} :
       client = (supabase_url # None /\ service_role_key # None)
  /\ db \in (IF client THEN LiveDatabases ELSE {NoDatabase})
  /\ schema_info = EmptyDict
  /\ pc = "idle"
  /\ request = NoRequest
  /\ generated_sql = ""
  /\ fallback_sql = None
  /\ results = <<>>
  /\ response = NoResponse
  /\ propagated = None
  /\ calls = <<>>
  /\ elapsed = 0

\* gemini_sql.py lines 28-30
add_schema(schema_data) ==
  /\ pc = "idle"
  /\ schema_info' = schema_data
  /\ UNCHANGED <<supabase_url, client, db, pc, request, generated_sql,
                 fallback_sql, results, response, propagated, calls, elapsed>>

\* lines 138-148: a request arrives
Request(query, max_results, explain) ==
  /\ pc = "idle"
  /\ request' = [query |-> query, max_results |-> max_results, explain |-> explain]
  /\ pc' = "translate"
  /\ generated_sql' = ""
  /\ elapsed' = 0
  /\ UNCHANGED <<supabase_url, client, db, schema_info, fallback_sql, results,
                 response, propagated, calls>>

\* An exception e raised inside the try block of line 144 at time t:
\* lines 224-236 when it is caught, and it leaves the function otherwise.
Throw(e, t) ==
  IF Caught(e)
  THEN /\ response' = ErrorResponse(request.query, e, t)
       /\ pc' = "returned"
       /\ propagated' = None
  ELSE /\ response' = response
       /\ pc' = "raised"
       /\ propagated' = Some(e)

\* lines 149-187
Translate ==
  /\ pc = "translate"
  /\ \E model_out \in GenerateOutcomes :
       LET r == generate_sql(schema_info, request.query, model_out)
           fallback == _get_fallback_sql(request.query)
       IN  \E d \in 0..1 :
              /\ elapsed + d <= MaxElapsed
              /\ elapsed' = elapsed + d
              /\ calls' = Append(calls, [op |-> "translate", arg |-> request.query,
                                         out |-> r,
                                         fault |-> ModelFault(schema_info, model_out)])
              /\ IF ~Raised(r)
                 THEN /\ generated_sql' = r.val
                      /\ pc' = "validate"
                      /\ UNCHANGED <<fallback_sql, response, propagated>>
                 ELSE /\ fallback_sql' = fallback
                      /\ IF Truthy(fallback)
                         THEN /\ generated_sql' = fallback[1]
                              /\ pc' = "validate"
                              /\ UNCHANGED <<response, propagated>>
                         ELSE /\ generated_sql' = generated_sql
                              /\ IF IsQuotaError(r.exc[1])
                                 THEN /\ response' = QuotaResponse(request.query)
                                      /\ pc' = "returned"
                                      /\ propagated' = None
                                 ELSE Throw(r.exc[1], elapsed + d)
  /\ UNCHANGED <<supabase_url, client, db, schema_info, request, results>>

\* lines 189-197
Validate ==
  /\ pc = "validate"
  /\ IF InvalidSql(generated_sql)
     THEN LET fallback == _get_fallback_sql(request.query)
          IN  /\ fallback_sql' = fallback
              /\ generated_sql' = IF Truthy(fallback) THEN fallback[1]
                                  ELSE PlaceholderSql
     ELSE UNCHANGED <<generated_sql, fallback_sql>>
  /\ pc' = "execute"
  /\ UNCHANGED <<supabase_url, client, db, schema_info, request, results,
                 response, propagated, calls, elapsed>>

\* line 200
Execute ==
  /\ pc = "execute"
  /\ \E ext \in (IF client THEN ExecuteOutcomes ELSE {NoFault}) :
       LET r == execute_sql_query(client, supabase_url, db, generated_sql,
                                  request.max_results, ext)
       IN  \E d \in 0..1 :
              /\ elapsed + d <= MaxElapsed
              /\ elapsed' = elapsed + d
              /\ calls' = Append(calls, [op |-> "execute", arg |-> generated_sql,
                                         out |-> r,
                                         fault |-> ServiceFault(client, generated_sql, r, ext)])
              /\ IF Raised(r)
                 THEN /\ Throw(r.exc[1], elapsed + d)
                      /\ UNCHANGED results
                 ELSE /\ results' = r.val
                      /\ pc' = "assemble"
                      /\ UNCHANGED <<response, propagated>>
  /\ UNCHANGED <<supabase_url, client, db, schema_info, request,
                 generated_sql, fallback_sql>>

\* lines 202-211
Assemble ==
  /\ pc = "assemble"
  /\ IF ValidResults(results)
     THEN /\ response' = SuccessResponse(request.query, generated_sql, results, elapsed)
          /\ pc' = IF request.explain THEN "explain" ELSE "returned"
          /\ UNCHANGED propagated
     ELSE Throw(ValidationError, elapsed)
  /\ UNCHANGED <<supabase_url, client, db, schema_info, request,
                 generated_sql, fallback_sql, results, calls, elapsed>>

ExplanationUnavailable == "AI explanation temporarily unavailable"

\* lines 213-222 with a second call of explain_sql when the model call of
\* the first one failed
ExplainRetrying ==
  /\ pc = "explain"
  /\ \E model_out \in ExplainOutcomes :
       LET r    == explain_sql(schema_info, generated_sql, model_out)
           call == [op |-> "explain", arg |-> generated_sql, out |-> r,
                    fault |-> ModelFault(schema_info, model_out)]
       IN  /\ response' = [response EXCEPT !.explanation =
                             IF Raised(r) THEN Some(ExplanationUnavailable)
                             ELSE Some(r.val)]
           /\ calls' = IF call.fault # None THEN calls \o <<call, call>>
                       ELSE Append(calls, call)
  /\ pc' = "returned"
  /\ UNCHANGED <<supabase_url, client, db, schema_info, request,
                 generated_sql, fallback_sql, results, propagated, elapsed>>

\* lines 213-222
Explain ==
  /\ pc = "explain"
  /\ \E model_out \in ExplainOutcomes :
       LET r == explain_sql(schema_info, generated_sql, model_out)
       IN  /\ response' = [response EXCEPT !.explanation =
                             IF Raised(r) THEN Some(ExplanationUnavailable)
                             ELSE Some(r.val)]
           /\ calls' = Append(calls, [op |-> "explain", arg |-> generated_sql,
                                      out |-> r,
                                      fault |-> ModelFault(schema_info, model_out)])
  /\ pc' = "returned"
  /\ UNCHANGED <<supabase_url, client, db, schema_info, request,
                 generated_sql, fallback_sql, results, propagated, elapsed>>

\* lines 238-252: the endpoint hands the envelope, or the exception, to the
\* HTTP layer and the request's locals are gone
Respond ==
  /\ pc \in {"returned", "raised"}
  /\ pc' = "idle"
  /\ request' = NoRequest
  /\ generated_sql' = ""
  /\ fallback_sql' = None
  /\ results' = <<>>
  /\ response' = NoResponse
  /\ propagated' = None
  /\ calls' = <<>>
  /\ elapsed' = 0
  /\ UNCHANGED <<supabase_url, client, db, schema_info>>

Next ==
  \/ \E schema_data \in Schemas : add_schema(schema_data)
  \/ \E query \in Questions, max_results \in MaxResultsValues, explain \in BOOLEAN :
       Request(query, max_results, explain)
  \/ Translate
  \/ Validate
  \/ Execute
  \/ Assemble
  \/ Explain
  \/ Respond

Spec == Init /\ [][Next]_vars

(***************************************************************************)
(* The fallback rule matcher on its own: every question built from the     *)
(* rule keywords, in both letter cases and both word orders.               *)
(***************************************************************************)
KeywordWords == <<"show", "count", "list", "high", "revenue">>

KeywordWordsMixed == <<"Show", "COUNT", "List", "HIGH", "Revenue">>

CustomerWords == <<"customers", "all customers">>

CustomerWordsMixed == <<"CUSTOMERS", "All Customer">>

OrderWords == <<"orders", "all orders">>

OrderWordsMixed == <<"Orders", "ALL ORDER">>

RECURSIVE Reverse(_)
Reverse(seq) ==
  IF Len(seq) = 0 THEN <<>> ELSE Append(Reverse(Tail(seq)), seq[1])

\* the question made of the keywords chosen, c and o being the form of the
\* customer and the order word (0 when absent)
KeywordQuestion(chosen, c, o, mixed, reversed) ==
  LET picked == SelectSeq(<<1, 2, 3, 4, 5>>, LAMBDA i : i \in chosen)
      words  == [i \in 1..Len(picked) |->
                   IF mixed THEN KeywordWordsMixed[picked[i]]
                   ELSE KeywordWords[picked[i]]]
      cust   == IF c = 0 THEN <<>>
                ELSE <<IF mixed THEN CustomerWordsMixed[c] ELSE CustomerWords[c]>>
      ord    == IF o = 0 THEN <<>>
                ELSE <<IF mixed THEN OrderWordsMixed[o] ELSE OrderWords[o]>>
      parts  == words \o cust \o ord
  IN  Join(IF reversed THEN Reverse(parts) ELSE parts, " ")

KeywordQuestions ==
  {KeywordQuestion(chosen, c, o, mixed, reversed) :
     chosen \in SUBSET (1..5), c \in 0..2, o \in 0..2,
     mixed \in BOOLEAN, reversed \in BOOLEAN}

MatcherInit ==
  /\ supabase_url = None
  /\ client = FALSE
  /\ db = NoDatabase
  /\ schema_info = EmptyDict
  /\ pc = "match"
  /\ request \in {[NoRequest EXCEPT !.query = q] : q \in KeywordQuestions}
  /\ generated_sql = ""
  /\ fallback_sql = None
  /\ results = <<>>
  /\ response = NoResponse
  /\ propagated = None
  /\ calls = <<>>
  /\ elapsed = 0

\* fallback_sql = _get_fallback_sql(request.query)
Match ==
  /\ pc = "match"
  /\ fallback_sql' = _get_fallback_sql(request.query)
  /\ pc' = "matched"
  /\ UNCHANGED <<supabase_url, client, db, schema_info, request, generated_sql,
                 results, response, propagated, calls, elapsed>>

MatcherNext == Match

MatcherSpec == MatcherInit /\ [][MatcherNext]_vars

(***************************************************************************)
(* Properties                                                              *)
(***************************************************************************)
Returned == pc = "returned"

\* the i-th call of the request is a call of op
IsCall(i, op) == i \in 1..Len(calls) /\ calls[i].op = op

\* C1: the SQL string passed to execute_sql_query never begins with
\* 'ERROR:', whatever the translator returned or raised.
C1_NoSentinelExecuted ==
  \A i \in 1..Len(calls) :
    calls[i].op = "execute" => ~StartsWith(calls[i].arg, "ERROR:")

\* the translator returned a string that begins with ERROR: and the executor
\* has been called
C1_Witness ==
  /\ IsCall(1, "translate") /\ ~Raised(calls[1].out)
  /\ StartsWith(calls[1].out.val, "ERROR:")
  /\ IsCall(2, "execute")

\* C2: every returned envelope has row_count = len(results); the envelope of
\* the quota-suggestions return has it for every question.
C2_RowCountIsLength ==
  /\ Returned => response.row_count = Len(response.results)
  /\ \A q \in Questions :
       QuotaResponse(q).row_count = Len(QuotaResponse(q).results)

\* a success envelope with three rows, and an envelope of the except handler
C2_Witness ==
  /\ Returned
  /\ \/ response.success /\ Len(response.results) = 3
     \/ ~response.success /\ response.error # None /\ response.results = <<>>

(***************************************************************************)
(* The rule lists of the fallback matcher as ordered tables: a rule        *)
(* matches when the lower-cased question contains every keyword of need    *)
(* and, unless any is empty, one keyword of any.                           *)
(***************************************************************************)
Rule(need, any, sql) == [need |-> need, any |-> any, sql |-> sql]

Matches(rule, question) ==
  LET lowered == Lower(question)
  IN  /\ \A k \in rule.need : Contains(lowered, k)
      /\ rule.any = {} \/ \E k \in rule.any : Contains(lowered, k)

RECURSIVE FirstMatch(_, _)
FirstMatch(rules, question) ==
  IF Len(rules) = 0 THEN None
  ELSE IF Matches(rules[1], question) THEN Some(rules[1].sql)
  ELSE FirstMatch(Tail(rules), question)

\* the list as the specification orders it (rules 1-9)
ListedRules ==
  <<Rule({"customer"}, {"show", "list"}, "SELECT * FROM customers LIMIT 10"),
    Rule({"customer", "count"}, {}, "SELECT COUNT(*) as count FROM customers"),
    Rule({"all customer"}, {}, "SELECT * FROM customers"),
    Rule({"customer"}, {"high", "revenue"},
         "SELECT * FROM customers WHERE revenue > 10000 ORDER BY revenue DESC LIMIT 10"),
    Rule({"customer"}, {}, "SELECT * FROM customers LIMIT 10"),
    Rule({"order"}, {"show", "list"}, "SELECT * FROM orders LIMIT 10"),
    Rule({"order", "count"}, {}, "SELECT COUNT(*) as count FROM orders"),
    Rule({"all order"}, {}, "SELECT * FROM orders"),
    Rule({"order"}, {}, "SELECT * FROM orders LIMIT 10"),
    Rule({"show"}, {}, "SELECT * FROM customers LIMIT 5"),
    Rule({"count"}, {}, "SELECT COUNT(*) as count FROM customers"),
    Rule({"list"}, {}, "SELECT * FROM customers LIMIT 5")>>

\* the same rules with the list rule of each table after its count rule
ListedRulesCountBeforeList ==
  <<Rule({"customer", "show"}, {}, "SELECT * FROM customers LIMIT 10"),
    Rule({"customer", "count"}, {}, "SELECT COUNT(*) as count FROM customers"),
    Rule({"customer", "list"}, {}, "SELECT * FROM customers LIMIT 10"),
    Rule({"all customer"}, {}, "SELECT * FROM customers"),
    Rule({"customer"}, {"high", "revenue"},
         "SELECT * FROM customers WHERE revenue > 10000 ORDER BY revenue DESC LIMIT 10"),
    Rule({"customer"}, {}, "SELECT * FROM customers LIMIT 10"),
    Rule({"order", "show"}, {}, "SELECT * FROM orders LIMIT 10"),
    Rule({"order", "count"}, {}, "SELECT COUNT(*) as count FROM orders"),
    Rule({"order", "list"}, {}, "SELECT * FROM orders LIMIT 10"),
    Rule({"all order"}, {}, "SELECT * FROM orders"),
    Rule({"order"}, {}, "SELECT * FROM orders LIMIT 10"),
    Rule({"show"}, {}, "SELECT * FROM customers LIMIT 5"),
    Rule({"count"}, {}, "SELECT COUNT(*) as count FROM customers"),
    Rule({"list"}, {}, "SELECT * FROM customers LIMIT 5")>>

Matched == pc = "matched"

\* C3 as stated: the matcher returns the statement of the first rule that
\* matches in the order the specification lists the rules.
C3_ListedOrder ==
  Matched => fallback_sql = FirstMatch(ListedRules, request.query)

\* C3: the matcher returns the statement of the first matching rule of the
\* list in which 'customer' with 'list' comes after 'customer' with 'count',
\* and 'order' with 'list' after 'order' with 'count'; none when no rule
\* matches.
C3_CountBeforeList ==
  Matched => fallback_sql = FirstMatch(ListedRulesCountBeforeList, request.query)

\* a question with 'customer', 'count' and 'list', resolved by the count rule
C3_Witness ==
  /\ Matched
  /\ request.query = "count list customers"
  /\ fallback_sql = Some("SELECT COUNT(*) as count FROM customers")

HasKeyword(k) == Contains(Lower(request.query), k)

\* C4: a question containing "customer" and "show", in any letter case and
\* with any other keywords, resolves to 'SELECT * FROM customers LIMIT 10'.
C4_ShowCustomer ==
  (Matched /\ HasKeyword("customer") /\ HasKeyword("show"))
    => fallback_sql = Some("SELECT * FROM customers LIMIT 10")

\* 'show all customers' has been matched
C4_Witness ==
  /\ Matched
  /\ request.query = "show all customers"
  /\ fallback_sql = Some("SELECT * FROM customers LIMIT 10")

\* C5 as stated: a question containing "customer" and "count" resolves to
\* 'SELECT COUNT(*) AS count FROM customers' whatever else it contains.
C5_CountCustomerAlways ==
  (Matched /\ HasKeyword("customer") /\ HasKeyword("count"))
    => fallback_sql = Some("SELECT COUNT(*) AS count FROM customers")

\* C5: a question containing "customer" and "count" and not "show" resolves
\* to 'SELECT COUNT(*) as count FROM customers', in any word order.
C5_CountCustomerNoShow ==
  (Matched /\ HasKeyword("customer") /\ HasKeyword("count") /\ ~HasKeyword("show"))
    => fallback_sql = Some("SELECT COUNT(*) as count FROM customers")

\* 'customers' before 'count', with 'list' and 'revenue' present as well
C5_Witness ==
  /\ Matched
  /\ request.query = "customers revenue list count"
  /\ fallback_sql = Some("SELECT COUNT(*) as count FROM customers")

\* C6 as stated: when a request to the live database raised during the
\* execute call, the envelope has success = false and the exception's
\* message as error.
C6_ExecutionFailureReported ==
  \A i \in 1..Len(calls) :
    (Returned /\ calls[i].op = "execute" /\ calls[i].fault # None)
      => /\ response.success = FALSE
         /\ response.error = Some(str(calls[i].fault[1]))

\* C7 as stated: when the explanation was requested and the model call of
\* explain_sql raised, the envelope is a success whose explanation is the
\* static string and carries no ERROR: text.
C7_ExplanationFailureSwallowed ==
  \A i \in 1..Len(calls) :
    (Returned /\ request.explain /\ calls[i].op = "explain" /\ calls[i].fault # None)
      => /\ response.success
         /\ response.explanation = Some("AI explanation temporarily unavailable")
         /\ ~StartsWith(response.explanation[1], "ERROR:")

\* C8 as stated: when the model call of the translator raised a quota-pattern
\* error and no fallback rule matches the question, the envelope has
\* success = false, an error containing 'quota' and the suggestions payload
\* as results.
C8_QuotaSuggestions ==
  (/\ Returned
   /\ IsCall(1, "translate")
   /\ calls[1].fault # None
   /\ IsQuotaError(calls[1].fault[1])
   /\ _get_fallback_sql(request.query) = None)
    => /\ response.success = FALSE
       /\ response.error # None
       /\ Contains(Lower(response.error[1]), "quota")
       /\ Len(response.results) = 1
       /\ "suggestions" \in DOMAIN response.results[1]

\* C9 as stated: 'show customers' in mock mode, resolved by the fallback rule
\* with the default limit, returns the two-row mock customer dataset followed
\* by the mock-mode note, row_count = 3, success = true and a generated_sql
\* containing 'customers'.
C9_ShowCustomersMock ==
  (/\ Returned
   /\ ~client
   /\ request.query = "show customers"
   /\ request.max_results = DefaultMaxResults
   /\ generated_sql = "SELECT * FROM customers LIMIT 10")
    => /\ response.success
       /\ Contains(response.generated_sql, "customers")
       /\ \E dataset \in {MockCustomersRevenue, MockCustomersTop} :
            response.results
              = dataset \o <<supabase_note(supabase_url, response.generated_sql)>>
       /\ response.row_count = 3

\* C10: no exception leaves process_text_query: a request never ends in
\* the raised position, no exception is handed to the HTTP layer, and what
\* is returned is the envelope of the request.
C10_AlwaysAnEnvelope ==
  /\ pc # "raised"
  /\ propagated = None
  /\ Returned => response.query = request.query

\* the translator raised, no fallback rule matched, and the exception came
\* back as an envelope
C10_Witness ==
  /\ Returned
  /\ IsCall(1, "translate") /\ Raised(calls[1].out)
  /\ response.success = FALSE
  /\ response.error = Some(str(calls[1].out.exc[1]))

\* a row of a table or of a mock dataset: not a count, note, message or
\* diagnostic row
IsDataRow(row) == DOMAIN row \cap {"count", "note", "message", "error"} = {}

NumDataRows(rows) == Cardinality({i \in 1..Len(rows) : IsDataRow(rows[i])})

\* the statement goes to the structured customers or orders path
Structured(sql) ==
  LET sql_clean == RStripChar(Strip(sql), ";")
  IN  _is_customers_query(sql_clean) \/ _is_orders_query(sql_clean)

\* the i-th call is a call of the executor in mock mode or on a live
\* structured path
MockOrStructured(i) ==
  IsCall(i, "execute") /\ (~client \/ Structured(calls[i].arg))

MaxCalls == 3

MockSqls ==
  {SqlCustomersCount, SqlOrdersLimit10,
   "SELECT * FROM customers WHERE revenue > 5000"}

MockInit ==
  /\ supabase_url \in {None, Some(ProjectUrl)}
  /\ client = FALSE
  /\ db = NoDatabase
  /\ schema_info = EmptyDict
  /\ pc = "mock"
  /\ request = NoRequest
  /\ generated_sql = ""
  /\ fallback_sql = None
  /\ results = <<>>
  /\ response = NoResponse
  /\ propagated = None
  /\ calls = <<>>
  /\ elapsed = 0

\* a call whose result is the reverse of what _get_mock_results builds when
\* an odd number of calls came before it
MockCallAlternating(sql, max_results) ==
  /\ pc = "mock"
  /\ Len(calls) < MaxCalls
  /\ LET r == execute_sql_query(client, supabase_url, db, sql, max_results, NoFault)
     IN  calls' = Append(calls,
                    [op |-> "execute", arg |-> sql, max_results |-> max_results,
                     out |-> IF Len(calls) % 2 = 1 THEN Ok(Reverse(r.val)) ELSE r,
                     fault |-> None])
  /\ UNCHANGED <<supabase_url, client, db, schema_info, pc, request,
                 generated_sql, fallback_sql, results, response, propagated,
                 elapsed>>

\* supabase_manager.py lines 98-104: execute_sql_query(sql, max_results)
\* with is_connected() false
MockCall(sql, max_results) ==
  /\ pc = "mock"
  /\ Len(calls) < MaxCalls
  /\ calls' = Append(calls,
                [op |-> "execute", arg |-> sql, max_results |-> max_results,
                 out |-> execute_sql_query(client, supabase_url, db, sql,
                                           max_results, NoFault),
                 fault |-> None])
  /\ UNCHANGED <<supabase_url, client, db, schema_info, pc, request,
                 generated_sql, fallback_sql, results, response, propagated,
                 elapsed>>

MockNext ==
  \E sql \in MockSqls, max_results \in MaxResultsValues : MockCall(sql, max_results)

MockSpec == MockInit /\ [][MockNext]_vars

OrdersCountStatements == {SqlOrdersCount, "SELECT COUNT(*) FROM orders;"}

\* C13: 'count orders' resolved to a count statement for orders against a
\* live database whose orders table holds N rows and answers the request:
\* results is the single row {count: N} and row_count = 1, for every
\* max_results.
C13_CountOrdersLive ==
  (/\ Returned
   /\ client
   /\ request.query = "count orders"
   /\ generated_sql \in OrdersCountStatements
   /\ IsCall(2, "execute") /\ calls[2].fault = None)
    => /\ response.success
       /\ response.generated_sql = generated_sql
       /\ response.results = <<[count |-> Len(db.orders)]>>
       /\ response.row_count = 1

\* two orders and three customers in the tables, max_results = 0, the
\* fallback rule's statement: the count is 2
C13_Witness ==
  /\ Returned
  /\ client
  /\ db.orders = LiveOrders /\ Len(db.customers) # Len(db.orders)
  /\ request.query = "count orders"
  /\ request.max_results = 0
  /\ generated_sql = SqlOrdersCount
  /\ response.results = <<[count |-> 2]>>
  /\ response.row_count = 1

\* a row-map that reports a failure
IsDiagnosticRow(row) == "error" \in DOMAIN row

\* C14 as stated: an envelope with success = false has empty results or
\* exactly one diagnostic row-map, and no envelope has both empty results
\* and an error.
C14_OneFailurePolicy ==
  Returned
    => /\ ~response.success
            => \/ response.results = <<>>
               \/ /\ Len(response.results) = 1
                  /\ IsDiagnosticRow(response.results[1])
       /\ ~(response.results = <<>> /\ response.error # None)

\* the order in which process_text_query issues its calls
CallOrder == <<"translate", "execute", "explain">>

\* the statement the pipeline executes after the translator's outcome out
\* for the question: its text, or the fallback or placeholder statement
Resolved(question, out) ==
  IF ~Raised(out) /\ ~InvalidSql(out.val) THEN out.val
  ELSE IF Truthy(_get_fallback_sql(question)) THEN _get_fallback_sql(question)[1]
  ELSE PlaceholderSql

\* the log of the request holds each call at most once and in order, the
\* executor was given the resolved statement, and the explainer was called
\* after the executor had returned
CallsInOrder ==
  /\ Len(calls) <= Len(CallOrder)
  /\ \A i \in 1..Len(calls) : calls[i].op = CallOrder[i]
  /\ pc = "translate" => calls = <<>>
  /\ pc \in {"validate", "execute"} => Len(calls) = 1
  /\ pc \in {"assemble", "explain"} => Len(calls) = 2
  /\ IsCall(2, "execute")
       => calls[2].arg = Resolved(calls[1].arg, calls[1].out)
  /\ IsCall(3, "explain")
       => /\ request.explain
          /\ ~Raised(calls[2].out)
          /\ calls[3].arg = calls[2].arg

\* a step leaves the log alone, adds one call at its end, or ends the request
LogStep ==
  \/ calls' = calls
  \/ pc' = "idle" /\ calls' = <<>>
  \/ /\ Len(calls') = Len(calls) + 1
     /\ SubSeq(calls', 1, Len(calls)) = calls

\* C15: within one request translate, execute and explain are each issued
\* at most once and in that order: execute with the statement resolved from
\* the translator's outcome, explain after execute has returned, and no
\* call a second time after a failure.
C15_EachCallOnceInOrder == []CallsInOrder /\ [][LogStep]_vars

\* all three calls were issued, the model calls of the translator and of
\* the explainer both failed
C15_Witness ==
  /\ Returned
  /\ Len(calls) = 3
  /\ calls[1].fault # None
  /\ calls[3].fault # None

\* the row-map the executor returns for the exception e of a live call
\* with the statement sql, as the claim describes it
IsFailureRow(row, e, sql) ==
  IF ~Contains(Lower(str(e)), "quota") /\ ~Contains(str(e), "429")
  THEN /\ DOMAIN row = {"error", "sql", "note"}
       /\ Contains(row.error, str(e))
       /\ row.sql = RStripChar(Strip(sql), ";")
  ELSE /\ IsDiagnosticRow(row)
       /\ row.error = "AI service temporarily unavailable"
       /\ "sql" \notin DOMAIN row
       /\ ~Contains(row.error, str(e)) /\ ~Contains(row.message, str(e))

\* C16 as stated: when a live call inside execute_sql_query raised, the
\* executor returned exactly one row-map, the {error, sql, note} row or, for
\* a quota-pattern error, the generic row.
C16_LiveFailureRow ==
  \A i \in 1..Len(calls) :
    (calls[i].op = "execute" /\ calls[i].fault # None)
      => /\ ~Raised(calls[i].out)
         /\ Len(calls[i].out.val) = 1
         /\ IsFailureRow(calls[i].out.val[1], calls[i].fault[1], calls[i].arg)

\* C16: when a request of the structured customers or orders path raised,
\* the executor returned exactly one row-map, the {error, sql, note} row or,
\* for a quota-pattern error, the generic row; when the exec_sql RPC raised,
\* it returned the single row of _execute_simple_query.
C16_StructuredFailureRow ==
  \A i \in 1..Len(calls) :
    (calls[i].op = "execute" /\ calls[i].fault # None)
      => /\ ~Raised(calls[i].out)
         /\ Len(calls[i].out.val) = 1
         /\ IF Structured(calls[i].arg)
            THEN IsFailureRow(calls[i].out.val[1], calls[i].fault[1], calls[i].arg)
            ELSE calls[i].out.val
                   = _execute_simple_query(RStripChar(Strip(calls[i].arg), ";"),
                                           request.max_results)

\* a structured request raised a quota-pattern error and the executor
\* returned the generic row
C16_Witness ==
  /\ IsCall(2, "execute")
  /\ calls[2].fault = Some(Exc("APIError", "Quota exceeded for this project"))
  /\ Structured(calls[2].arg)
  /\ calls[2].out.val[1].error = "AI service temporarily unavailable"

\* C17 as stated: when the translator's output was unusable and no fallback
\* rule matched, the placeholder statement that was executed is neither a
\* customers nor an orders query, and the results hold no customers count
\* and no customers rows.
C17_PlaceholderIsGeneric ==
  (/\ Returned
   /\ IsCall(1, "translate") /\ IsCall(2, "execute")
   /\ Raised(calls[1].out) \/ InvalidSql(calls[1].out.val)
   /\ _get_fallback_sql(request.query) = None
   /\ response.success)
    => /\ calls[2].arg = PlaceholderSql
       /\ ~_is_customers_query(calls[2].arg)
       /\ ~_is_orders_query(calls[2].arg)
       /\ \A i \in 1..Len(response.results) :
            /\ "count" \notin DOMAIN response.results[i]
            /\ ~IsDataRow(response.results[i])

====
